---------------------------- MODULE Spec2Model ----------------------------
(***************************************************************************)
(* A model of the SEC data scripts of the Fortune-100 repository:          *)
(*   bootstrap_sec_data.py    normalize_name, get_cik, extract_facts, main *)
(*   daily_update_sec_data.py get_cik, latest_years, main                  *)
(*                                                                         *)
(* A Python str is a sequence of one-character strings.  A similarity      *)
(* score is the exact rational [num, den] that rapidfuzz computes as a     *)
(* double; scores are compared by cross-multiplication.                    *)
(***************************************************************************)
EXTENDS Integers, Sequences, FiniteSets, TLC

VARIABLES
    pc,            \* the position of the script being run
    name_in,       \* SpecNorm: the argument of normalize_name
    name_other,    \* SpecNorm: a second argument, compared with the first
    norm1,         \* SpecNorm: normalize_name(name_in)
    norm2,         \* SpecNorm: normalize_name(norm1)
    norm_other,    \* SpecNorm: normalize_name(name_other)
    query,         \* SpecResolve: the company_name passed to get_cik
    mapping,       \* the registry (company_tickers.json), in iteration order
    result,        \* SpecResolve: what get_cik returned or raised
    companies,     \* bootstrap: the "company" fields of the input list
    idx,           \* the position of the running loop in its list
    all_data,      \* bootstrap: the dict being gathered
    file,          \* the content of company_financials.json
    boot_writes,   \* how many times the bootstrap wrote the file
    data,          \* daily update: the dict read from the file
    runs,          \* daily-update runs started
    outcomes,      \* per entity of the running loop: what was fetched, how it ended
    file_before,   \* the file as the last daily-update run read it
    prev_outcomes  \* the outcomes of the daily-update run before the last

normVars == <<name_in, name_other, norm1, norm2, norm_other>>

resolveVars == <<query, result>>

dataVars == <<companies, idx, all_data, file, boot_writes, data, runs, outcomes,
              file_before, prev_outcomes>>

vars == <<pc, normVars, resolveVars, mapping, dataVars>>

(***************************************************************************)
(* Bounds of the model.                                                    *)
(***************************************************************************)
\* longest string enumerated as an input of normalize_name
MaxLen == 4

(***************************************************************************)
(* Characters.                                                             *)
(***************************************************************************)
Lower26 == <<"a","b","c","d","e","f","g","h","i","j","k","l","m",
             "n","o","p","q","r","s","t","u","v","w","x","y","z">>

Upper26 == <<"A","B","C","D","E","F","G","H","I","J","K","L","M",
             "N","O","P","Q","R","S","T","U","V","W","X","Y","Z">>

Digits10 == <<"0","1","2","3","4","5","6","7","8","9">>

Range(f) == {f[k] : k \in DOMAIN f}

\* the characters of the model in code-point order (Python compares str by
\* code point): space, '.', digits, upper case, '_', lower case
CharOrder == <<" ", ".">> \o Digits10 \o Upper26 \o <<"_">> \o Lower26

Ord(c) == CHOOSE k \in DOMAIN CharOrder : CharOrder[k] = c

\* str.lower() on one character
LowerChar(c) ==
    IF c \in Range(Upper26)
    THEN Lower26[CHOOSE k \in DOMAIN Upper26 : Upper26[k] = c]
    ELSE c

\* \w of the regular expression: letters, digits and the underscore
IsWordChar(c) == c \in Range(Lower26) \cup Range(Upper26) \cup Range(Digits10) \cup {"_"}

\* the class [a-z0-9 ] whose complement line 44 deletes
IsKept(c) == c \in Range(Lower26) \cup Range(Digits10) \cup {" "}

(***************************************************************************)
(* normalize_name (bootstrap_sec_data.py, lines 37-45).                    *)
(***************************************************************************)
\* the alternatives of the pattern of line 42, in the pattern's order
SuffixTokens ==
    << <<"i","n","c","o","r","p","o","r","a","t","e","d">>,
       <<"i","n","c">>,
       <<"c","o","r","p">>,
       <<"c","o","r","p","o","r","a","t","i","o","n">>,
       <<"l","l","c">>,
       <<"l","t","d">>,
       <<"p","l","c">>,
       <<"g","r","o","u","p">>,
       <<"c","o","m","p","a","n","y">> >>

\* \b at the gap before position i of s (1-based; i = Len(s)+1 is the end)
WordBoundary(s, i) ==
    LET before == i > 1 /\ IsWordChar(s[i-1])
        after  == i <= Len(s) /\ IsWordChar(s[i])
    IN  before # after

\* \b token \b matches s at position i, ignoring case (flags=re.I)
TokenMatchesAt(s, i, t) ==
    /\ i + Len(t) - 1 <= Len(s)
    /\ WordBoundary(s, i)
    /\ \A k \in 1..Len(t) : LowerChar(s[i + k - 1]) = t[k]
    /\ WordBoundary(s, i + Len(t))

\* length of the match of the pattern at position i, 0 when there is none:
\* the first alternative, in the pattern's order, that matches
MatchLenAt(s, i) ==
    LET hits == {n \in DOMAIN SuffixTokens : TokenMatchesAt(s, i, SuffixTokens[n])}
    IN  IF hits = {} THEN 0
        ELSE Len(SuffixTokens[CHOOSE n \in hits : \A m \in hits : n <= m])

RECURSIVE SubFrom(_, _)
\* re.sub(pattern, '', s) from position i on: leftmost non-overlapping matches
SubFrom(s, i) ==
    IF i > Len(s) THEN <<>>
    ELSE LET n == MatchLenAt(s, i)
         IN  IF n > 0 THEN SubFrom(s, i + n)
             ELSE <<s[i]>> \o SubFrom(s, i + 1)

\* line 42: delete the whole-word suffix tokens
StripSuffixes(s) == SubFrom(s, 1)

\* line 44: lower-case, then delete every character outside [a-z0-9 ]
StripPunct(s) ==
    LET low == [k \in DOMAIN s |-> LowerChar(s[k])]
    IN  SelectSeq(low, IsKept)

RECURSIVE SplitFrom(_, _, _)
\* str.split(): the maximal runs of non-space characters, in order
SplitFrom(s, i, cur) ==
    IF i > Len(s) THEN (IF cur = <<>> THEN <<>> ELSE <<cur>>)
    ELSE IF s[i] = " "
         THEN (IF cur = <<>> THEN <<>> ELSE <<cur>>) \o SplitFrom(s, i + 1, <<>>)
         ELSE SplitFrom(s, i + 1, Append(cur, s[i]))

Split(s) == SplitFrom(s, 1, <<>>)

RECURSIVE Join(_)
\* ' '.join(tokens)
Join(toks) ==
    IF toks = <<>> THEN <<>>
    ELSE IF Len(toks) = 1 THEN toks[1]
    ELSE toks[1] \o <<" ">> \o Join(Tail(toks))

\* a faulty variant of normalize_name: line 44 without .lower()
normalize_name_no_lower(s) == Join(Split(SelectSeq(StripSuffixes(s), IsKept)))

normalize_name(s) == Join(Split(StripPunct(StripSuffixes(s))))

(***************************************************************************)
(* rapidfuzz: fuzz.token_sort_ratio and process.extractOne, as called on   *)
(* lines 64-68 of bootstrap_sec_data.py.                                   *)
(***************************************************************************)
\* a < b for two str, compared character by character by code point
RECURSIVE LexLess(_, _)
LexLess(a, b) ==
    IF b = <<>> THEN FALSE
    ELSE IF a = <<>> THEN TRUE
    ELSE IF a[1] # b[1] THEN Ord(a[1]) < Ord(b[1])
    ELSE LexLess(Tail(a), Tail(b))

RECURSIVE InsertSorted(_, _)
InsertSorted(t, sorted) ==
    IF sorted = <<>> THEN <<t>>
    ELSE IF LexLess(t, sorted[1]) THEN <<t>> \o sorted
    ELSE <<sorted[1]>> \o InsertSorted(t, Tail(sorted))

RECURSIVE Sorted(_)
\* sorted(tokens)
Sorted(toks) ==
    IF toks = <<>> THEN <<>> ELSE InsertSorted(toks[1], Sorted(Tail(toks)))

\* " ".join(sorted(s.split()))
TokenSort(s) == Join(Sorted(Split(s)))

Max2(x, y) == IF x >= y THEN x ELSE y

RECURSIVE LcsLen(_, _)
\* the length of the longest common subsequence of a and b
LcsLen(a, b) ==
    IF a = <<>> \/ b = <<>> THEN 0
    ELSE IF a[1] = b[1] THEN 1 + LcsLen(Tail(a), Tail(b))
    ELSE Max2(LcsLen(Tail(a), b), LcsLen(a, Tail(b)))

\* fuzz.ratio: 100 * (1 - indel / (len a + len b)) = 200 * lcs / (len a + len b),
\* and 100 for two empty strings; kept as the exact fraction num / den
Ratio(a, b) ==
    IF Len(a) + Len(b) = 0 THEN [num |-> 100, den |-> 1]
    ELSE [num |-> 200 * LcsLen(a, b), den |-> Len(a) + Len(b)]

token_sort_ratio(a, b) == Ratio(TokenSort(a), TokenSort(b))

\* comparisons of two scores, and of a score with a whole number
ScoreLess(x, y) == x.num * y.den < y.num * x.den

ScoreEq(x, y) == x.num * y.den = y.num * x.den

ScoreAtLeast(x, n) == x.num >= n * x.den

RECURSIVE BestFrom(_, _, _, _)
\* the scan of extractOne from index i on: `best` is the index of the best
\* choice so far, replaced only by a strictly greater score
BestFrom(target, choices, i, best) ==
    IF i > Len(choices) THEN best
    ELSE IF ScoreLess(token_sort_ratio(target, choices[best]),
                      token_sort_ratio(target, choices[i]))
         THEN BestFrom(target, choices, i + 1, i)
         ELSE BestFrom(target, choices, i + 1, best)

\* process.extractOne(target, choices, scorer=fuzz.token_sort_ratio): the
\* 1-based position of the first choice of maximal score (0: no choices, for
\* which extractOne returns None)
extractOne(target, choices) ==
    IF choices = <<>> THEN 0 ELSE BestFrom(target, choices, 2, 1)

(***************************************************************************)
(* get_cik (bootstrap_sec_data.py, lines 54-81).                           *)
(***************************************************************************)
\* line 69: the hard threshold of the fuzzy match
Threshold == 85

\* lines 70 and 77: the width of zfill
CikWidth == 10

RECURSIVE Str(_)
\* str(n) of a natural number
Str(n) == IF n < 10 THEN <<Digits10[n + 1]>> ELSE Str(n \div 10) \o <<Digits10[(n % 10) + 1]>>

RECURSIVE Zfill(_, _)
\* s.zfill(w) of a string of digits
Zfill(s, w) == IF Len(s) >= w THEN s ELSE Zfill(<<"0">> \o s, w)

\* a in b, for two str
IsSubstring(a, b) ==
    \E i \in 0..(Len(b) - Len(a)) : SubSeq(b, i + 1, i + Len(a)) = a

NoScore == [num |-> 0, den |-> 1]

Returned(cik)   == [kind |-> "return",     cik |-> cik,  score |-> NoScore]

ValueError(sc)  == [kind |-> "ValueError", cik |-> <<>>, score |-> sc]

TypeError       == [kind |-> "TypeError",  cik |-> <<>>, score |-> NoScore]

KeyError        == [kind |-> "KeyError",   cik |-> <<>>, score |-> NoScore]

\* mapping[k]: the positions of the entries of key k (at most one)
Lookup(m, k) == {j \in DOMAIN m : m[j].key = k}

\* lines 75-79: the first entry, in iteration order, whose normalized title
\* contains the target; ValueError (line 81) when there is none
Fallback(target, m, score) ==
    LET hits == {j \in DOMAIN m : IsSubstring(target, normalize_name(m[j].title))}
    IN  IF hits = {} THEN ValueError(score)
        ELSE Returned(Zfill(Str(m[CHOOSE j \in hits : \A h \in hits : j <= h].cik_str),
                            CikWidth))

\* lines 69-72: the fuzzy match; extractOne's third result is the 0-based index
\* of the choice in the list, and line 70 uses str(index) as a key of the mapping
FuzzyHit(m, index) ==
    LET at == Lookup(m, Str(index))
    IN  IF at = {} THEN KeyError
        ELSE Returned(Zfill(Str(m[CHOOSE j \in at : TRUE].cik_str), CikWidth))

\* a faulty variant of get_cik: lines 74-79, the substring fallback, left out
get_cik_no_fallback(company_name, m) ==
    LET target  == normalize_name(company_name)
        choices == [j \in DOMAIN m |-> normalize_name(m[j].title)]
        best    == extractOne(target, choices)
    IN  IF best = 0 THEN TypeError
        ELSE LET score == token_sort_ratio(target, choices[best])
             IN  IF ScoreAtLeast(score, Threshold) THEN FuzzyHit(m, best - 1)
                 ELSE ValueError(score)

get_cik(company_name, m) ==
    LET target  == normalize_name(company_name)
        choices == [j \in DOMAIN m |-> normalize_name(m[j].title)]
        best    == extractOne(target, choices)
    IN  IF best = 0 THEN TypeError       \* line 64 unpacks None
        ELSE LET score == token_sort_ratio(target, choices[best])
             IN  IF ScoreAtLeast(score, Threshold) THEN FuzzyHit(m, best - 1)
                 ELSE Fallback(target, m, score)

(***************************************************************************)
(* Inputs of get_cik.                                                      *)
(***************************************************************************)
\* the most entries of an enumerated registry
MaxEntries == 2

\* company names and registry titles
ResolverNames ==
    { <<>>,
      <<"I","n","c",".">>,
      <<"a","b","c">>,
      <<"a","b","c","d">>,
      <<"A","B","C"," ","I","n","c",".">>,
      <<"b"," ","a">>,
      <<"a"," ","b">>,
      <<"b">>,
      <<"z","z">> }

\* cik_str values (integers in company_tickers.json): the entry at position j of
\* an enumerated registry has the j-th, so that its entries tell apart
CikAt == <<320193, 789019, 1067983, 19617>>

\* the keys of a registry of n entries, in iteration order: "0","1",..., as in
\* company_tickers.json; the same keys in reverse order; opaque keys
SecKeys(n) == [j \in 1..n |-> Str(j - 1)]

ReversedKeys(n) == [j \in 1..n |-> Str(n - j)]

OpaqueKeys(n) == [j \in 1..n |-> <<"K">> \o Str(j)]

KeyShapes(n) == {SecKeys(n), ReversedKeys(n), OpaqueKeys(n)}

RegistriesOfSize(n) ==
    { [j \in 1..n |-> [key |-> ks[j], title |-> ts[j], cik_str |-> CikAt[j]]] :
        ks \in KeyShapes(n), ts \in [1..n -> ResolverNames] }

Registries == UNION {RegistriesOfSize(n) : n \in 0..MaxEntries}

NoResult == [kind |-> "none", cik |-> <<>>, score |-> NoScore]

(***************************************************************************)
(* The facts source: extract_facts (bootstrap_sec_data.py, lines 83-100)   *)
(* and latest_years (daily_update_sec_data.py, lines 39-53).               *)
(***************************************************************************)
\* datetime.date.today().year, fixed for the run
CurrentYear == 2025

\* line 88: cutoff = today's year - 5
Window == 5

Cutoff == CurrentYear - Window

\* the keys of the returned dict, in the order of the dict literal
Metrics == <<"Revenue", "NetIncome", "OperatingCashFlow", "Assets", "Liabilities", "Equity">>

\* the us-gaap concept each metric is picked from
Concept(metric) ==
    CASE metric = "Revenue"           -> "Revenues"
      [] metric = "NetIncome"         -> "NetIncomeLoss"
      [] metric = "OperatingCashFlow" -> "NetCashProvidedByUsedInOperatingActivities"
      [] metric = "Assets"            -> "Assets"
      [] metric = "Liabilities"       -> "Liabilities"
      [] metric = "Equity"            -> "StockholdersEquity"

DigitVal(c) == (CHOOSE k \in DOMAIN Digits10 : Digits10[k] = c) - 1

RECURSIVE ParseInt(_)
\* int(s) of a string of digits
ParseInt(s) ==
    IF s = <<>> THEN 0 ELSE 10 * ParseInt(SubSeq(s, 1, Len(s) - 1)) + DigitVal(s[Len(s)])

\* int(i["end"][:4])
YearOf(item) == ParseInt(SubSeq(item.end, 1, 4))

\* facts.get(name, {}).get("units", {}).get("USD", [])
ItemsOf(facts, concept) == IF concept \in DOMAIN facts THEN facts[concept] ELSE <<>>

Observation(item) == [year |-> YearOf(item), val |-> item.val]

InWindow(item) == YearOf(item) >= Cutoff

\* pick of extract_facts (lines 89-92): the observations of the trailing window
pick_boot(facts, concept) ==
    LET items == SelectSeq(ItemsOf(facts, concept), InWindow)
    IN  [k \in DOMAIN items |-> Observation(items[k])]

\* extract_facts: fails on an HTTP error (line 86) and on a payload without
\* facts/us-gaap (line 87)
extract_facts(resp) ==
    IF resp.kind # "facts" THEN [ok |-> FALSE, financials |-> <<>>]
    ELSE [ok |-> TRUE,
          financials |-> [m \in Range(Metrics) |-> pick_boot(resp.facts, Concept(m))]]

RECURSIVE YearDict(_)
\* {int(i["end"][:4]): i["val"] for i in items}: one pair per year, in the
\* order of the years' first items, each with the value of the year's last item
YearDict(items) ==
    IF items = <<>> THEN <<>>
    ELSE LET n    == Len(items)
             init == YearDict(SubSeq(items, 1, n - 1))
             y    == YearOf(items[n])
         IN  IF \E k \in DOMAIN init : init[k].year = y
             THEN [k \in DOMAIN init |->
                      IF init[k].year = y THEN Observation(items[n]) ELSE init[k]]
             ELSE Append(init, Observation(items[n]))

\* pick of latest_years (lines 43-45)
pick_daily(facts, concept) == YearDict(ItemsOf(facts, concept))

\* latest_years: fails on an HTTP error (line 41); a payload without
\* facts/us-gaap reads as no facts (line 42)
latest_years(resp) ==
    IF resp.kind = "error" THEN [ok |-> FALSE, updated |-> <<>>]
    ELSE LET facts == IF resp.kind = "facts" THEN resp.facts ELSE <<>>
         IN  [ok |-> TRUE,
              updated |-> [m \in Range(Metrics) |-> pick_daily(facts, Concept(m))]]

(***************************************************************************)
(* The dicts all_data and data: sequences of records in insertion order.   *)
(***************************************************************************)
HasName(d, name) == \E k \in DOMAIN d : d[k].name = name

\* d[name] = value: replaces the value of an existing key in place
DictSet(d, name, cik, financials) ==
    LET rec == [name |-> name, cik |-> cik, financials |-> financials]
    IN  IF HasName(d, name)
        THEN [k \in DOMAIN d |-> IF d[k].name = name THEN rec ELSE d[k]]
        ELSE Append(d, rec)

\* info["financials"].get(metric, [])
ObsOf(financials, metric) ==
    IF metric \in DOMAIN financials THEN financials[metric] ELSE <<>>

YearsOf(obs) == {obs[k].year : k \in DOMAIN obs}

\* lines 72-75 for one metric: the fetched observations whose year is not known
NewObs(financials, metric, vals) ==
    LET known == YearsOf(ObsOf(financials, metric))
        fresh(o) == o.year \notin known
    IN  SelectSeq(vals, fresh)

\* a faulty variant of Merge: line 73, the test of known_years, left out
Merge_no_skip(financials, updated) ==
    [m \in DOMAIN financials \cup {x \in Range(Metrics) : updated[x] # <<>>} |->
        ObsOf(financials, m) \o (IF m \in Range(Metrics) THEN updated[m] ELSE <<>>)]

\* lines 70-75: setdefault creates a metric's list only when something is appended
Merge(financials, updated) ==
    LET add(m) == IF m \in Range(Metrics) THEN NewObs(financials, m, updated[m]) ELSE <<>>
    IN  [m \in DOMAIN financials \cup {x \in Range(Metrics) : add(x) # <<>>} |->
            ObsOf(financials, m) \o add(m)]

(***************************************************************************)
(* get_cik of the daily update (daily_update_sec_data.py, lines 13-36).    *)
(***************************************************************************)
LowerCase(s) == [k \in DOMAIN s |-> LowerChar(s[k])]

daily_get_cik(name, reg) ==
    IF reg.kind = "error" THEN [kind |-> "HTTPError", cik |-> <<>>, score |-> NoScore]
    ELSE LET m      == reg.registry
             exact  == {j \in DOMAIN m : LowerCase(m[j].title) = LowerCase(name)}
             titles == [j \in DOMAIN m |-> m[j].title]
             best   == extractOne(name, titles)
         IN  IF exact # {}
             THEN Returned(Zfill(Str(m[CHOOSE j \in exact : \A h \in exact : j <= h].cik_str),
                                 CikWidth))
             ELSE IF best = 0 THEN TypeError
             ELSE LET score == token_sort_ratio(name, titles[best])
                      same  == {j \in DOMAIN m : m[j].title = titles[best]}
                  IN  IF ScoreAtLeast(score, Threshold)
                      THEN Returned(Zfill(Str(m[CHOOSE j \in same : \A h \in same : j <= h].cik_str),
                                          CikWidth))
                      ELSE ValueError(score)

(***************************************************************************)
(* Inputs of normalize_name.                                               *)
(***************************************************************************)
\* the alphabet of the enumerated inputs: the letters of the suffix "llc", an
\* upper-case letter, a digit, a space, a punctuation mark and the underscore
NormAlphabet == {"l", "c", "L", "1", " ", ".", "_"}

RECURSIVE StringsUpTo(_)
StringsUpTo(n) ==
    IF n = 0 THEN {<<>>}
    ELSE LET shorter == StringsUpTo(n - 1)
         IN  shorter \cup {Append(s, c) : s \in shorter, c \in NormAlphabet}

AdobeSystemsIncorporated ==
    <<"A","d","o","b","e"," ","S","y","s","t","e","m","s"," ",
      "I","n","c","o","r","p","o","r","a","t","e","d">>

AdobeIncUpper == <<"A","D","O","B","E"," ","I","N","C">>

AdobeSystemsIncUpper ==
    <<"A","D","O","B","E"," ","S","Y","S","T","E","M","S"," ","I","N","C">>

AdobeIncDot == <<"A","d","o","b","e"," ","I","n","c",".">>

NamedInputs == {AdobeSystemsIncorporated, AdobeIncUpper, AdobeSystemsIncUpper, AdobeIncDot}

\* str.upper() on one character
UpperChar(c) ==
    IF c \in Range(Lower26)
    THEN Upper26[CHOOSE k \in DOMAIN Lower26 : Lower26[k] = c]
    ELSE c

UpperCase(s) == [k \in DOMAIN s |-> UpperChar(s[k])]

\* the pairs (name_in, name_other): every enumerated string with its upper-case
\* form, and every pair of the named inputs
NormPairs ==
    {<<s, UpperCase(s)>> : s \in StringsUpTo(MaxLen)} \cup (NamedInputs \X NamedInputs)

(***************************************************************************)
(* Inputs of the two main loops.                                           *)
(***************************************************************************)
\* the most companies in the input list of the bootstrap
MaxCompanies == 2

\* the most daily-update runs after the file exists
MaxRuns == 2

NameABC == <<"a","b","c">>

NameB == <<"b">>

NameZZ == <<"z","z">>

NameAB == <<"a"," ","b">>

TitleABCInc == <<"A","B","C"," ","I","n","c",".">>

TitleBA == <<"b"," ","a">>

\* the "company" fields of the input list
BootNames == {NameABC, NameB, NameZZ}

RECURSIVE ListsUpTo(_, _)
ListsUpTo(S, n) ==
    IF n = 0 THEN {<<>>}
    ELSE LET shorter == ListsUpTo(S, n - 1)
         IN  shorter \cup {Append(l, x) : l \in shorter, x \in S}

\* company_tickers.json as the SEC serves it, keyed "0", "1", ...
SecRegistry ==
    << [key |-> <<"0">>, title |-> TitleABCInc, cik_str |-> 320193],
       [key |-> <<"1">>, title |-> TitleBA,     cik_str |-> 789019] >>

\* the same entries under opaque keys
OpaqueRegistry ==
    [j \in DOMAIN SecRegistry |-> [SecRegistry[j] EXCEPT !.key = <<"K">> \o Str(j)]]

\* the registries a bootstrap run may load, the empty one included
BootRegistries == {SecRegistry, OpaqueRegistry, <<>>}

\* what the GET of company_tickers.json gives the daily update
RegistryResponses ==
    { [kind |-> "error", registry |-> <<>>],
      [kind |-> "ok",    registry |-> SecRegistry] }

Dec31 == <<"-","1","2","-","3","1">>

Jun30 == <<"-","0","6","-","3","0">>

Item(year, monthday, val) == [end |-> Str(year) \o monthday, val |-> val]

\* the facts of a filer: a year before the window, the year of the cutoff and
\* a recent year
FactsEarly ==
    [c \in {"Revenues", "Assets"} |->
        IF c = "Revenues"
        THEN << Item(Cutoff - 1, Dec31, 10), Item(Cutoff, Dec31, 20),
                Item(CurrentYear - 1, Dec31, 40) >>
        ELSE << Item(CurrentYear - 1, Dec31, 400) >>]

\* the same filer later: a restated value, two items of the current year and
\* a concept that was absent
FactsLate ==
    [c \in {"Revenues", "Assets", "NetIncomeLoss"} |->
        IF c = "Revenues"
        THEN << Item(Cutoff - 1, Dec31, 10), Item(Cutoff, Dec31, 20),
                Item(CurrentYear - 1, Dec31, 41), Item(CurrentYear, Jun30, 45),
                Item(CurrentYear, Dec31, 50) >>
        ELSE IF c = "Assets"
        THEN << Item(CurrentYear - 1, Dec31, 400), Item(CurrentYear, Dec31, 500) >>
        ELSE << Item(CurrentYear, Dec31, 5) >>]

NoFacts == <<>>

\* what the GET of companyfacts gives: an HTTP error, a payload without
\* facts/us-gaap, or facts
FactsResponses ==
    { [kind |-> "error",   facts |-> NoFacts],
      [kind |-> "nofacts", facts |-> NoFacts],
      [kind |-> "facts",   facts |-> FactsEarly],
      [kind |-> "facts",   facts |-> FactsLate] }

NotFetched == [kind |-> "none", facts |-> NoFacts]

EmptyFinancials == [m \in Range(Metrics) |-> <<>>]

\* files the daily update may find that no bootstrap run wrote: records
\* without a cik (line 64) and without some metric (lines 71 and 75)
FileMissingCik ==
    << [name |-> TitleABCInc, cik |-> <<>>,
        financials |-> [EmptyFinancials EXCEPT
                           !["Revenue"] = <<[year |-> CurrentYear - 1, val |-> 40]>>]],
       [name |-> NameZZ, cik |-> <<>>,
        financials |-> [m \in {"Revenue"} |-> <<[year |-> Cutoff, val |-> 20]>>]] >>

FileMissingMetric ==
    << [name |-> NameAB, cik |-> <<>>, financials |-> EmptyFinancials],
       [name |-> TitleABCInc, cik |-> Zfill(Str(320193), CikWidth),
        financials |-> [m \in {"Revenue", "Assets"} |->
                           <<[year |-> CurrentYear - 1, val |-> 40]>>]] >>

InitialFiles == {FileMissingCik, FileMissingMetric}

NoString == <<"?">>

NormIdle ==
    /\ name_in = <<>>
    /\ name_other = <<>>
    /\ norm1 = NoString
    /\ norm2 = NoString
    /\ norm_other = NoString

ResolveIdle ==
    /\ query = <<>>
    /\ result = NoResult

DataIdle ==
    /\ companies = <<>>
    /\ idx = 1
    /\ all_data = <<>>
    /\ file = <<>>
    /\ boot_writes = 0
    /\ data = <<>>
    /\ runs = 0
    /\ outcomes = <<>>
    /\ file_before = <<>>
    /\ prev_outcomes = <<>>

(***************************************************************************)
(* SpecNorm: normalize_name applied once, then to its own result.          *)
(***************************************************************************)
InitNorm ==
    /\ pc = "norm_start"
    /\ \E p \in NormPairs : name_in = p[1] /\ name_other = p[2]
    /\ norm1 = NoString
    /\ norm2 = NoString
    /\ norm_other = NoString
    /\ mapping = <<>>
    /\ ResolveIdle
    /\ DataIdle

NormalizeOnce ==
    /\ pc = "norm_start"
    /\ norm1' = normalize_name(name_in)
    /\ norm_other' = normalize_name(name_other)
    /\ pc' = "norm_once"
    /\ UNCHANGED <<name_in, name_other, norm2, resolveVars, mapping, dataVars>>

NormalizeTwice ==
    /\ pc = "norm_once"
    /\ norm2' = normalize_name(norm1)
    /\ pc' = "norm_twice"
    /\ UNCHANGED <<name_in, name_other, norm1, norm_other, resolveVars, mapping, dataVars>>

NextNorm == NormalizeOnce \/ NormalizeTwice

SpecNorm == InitNorm /\ [][NextNorm]_vars

(***************************************************************************)
(* SpecResolve: one call of get_cik of the bootstrap.                      *)
(***************************************************************************)
InitResolve ==
    /\ pc = "resolve_start"
    /\ query \in ResolverNames
    /\ mapping \in Registries
    /\ result = NoResult
    /\ NormIdle
    /\ DataIdle

Resolve ==
    /\ pc = "resolve_start"
    /\ result' = get_cik(query, mapping)
    /\ pc' = "resolve_done"
    /\ UNCHANGED <<query, normVars, mapping, dataVars>>

NextResolve == Resolve

SpecResolve == InitResolve /\ [][NextResolve]_vars

(***************************************************************************)
(* SpecData: main of the bootstrap (bootstrap_sec_data.py, lines 106-124)  *)
(* and main of the daily update (daily_update_sec_data.py, lines 56-83).   *)
(* Either the bootstrap runs and daily updates follow, or daily updates    *)
(* run on a file that is already there.                                    *)
(***************************************************************************)
Outcome(name, status, resp) == [name |-> name, status |-> status, resp |-> resp]

InitBoot ==
    /\ pc = "boot_loop"
    /\ companies \in ListsUpTo(BootNames, MaxCompanies)
    /\ mapping \in BootRegistries
    /\ file = <<>>

InitDaily ==
    /\ pc = "daily_ready"
    /\ companies = <<>>
    /\ mapping = <<>>
    /\ file \in InitialFiles

InitData ==
    /\ InitBoot \/ InitDaily
    /\ idx = 1
    /\ all_data = <<>>
    /\ boot_writes = 0
    /\ data = <<>>
    /\ runs = 0
    /\ outcomes = <<>>
    /\ file_before = <<>>
    /\ prev_outcomes = <<>>
    /\ NormIdle
    /\ ResolveIdle

\* a faulty variant of BootEntity: get_cik called outside the try block, so
\* that its failure ends the script before the file is written
BootEntity_uncaught ==
    /\ pc = "boot_loop"
    /\ idx <= Len(companies)
    /\ LET name == companies[idx]
           r    == get_cik(name, mapping)
       IN  IF r.kind # "return"
           THEN /\ pc' = "boot_crashed"
                /\ UNCHANGED <<all_data, idx, outcomes>>
           ELSE /\ \E resp \in FactsResponses :
                     LET ef == extract_facts(resp)
                     IN  /\ all_data' = IF ef.ok THEN DictSet(all_data, name, r.cik, ef.financials)
                                        ELSE all_data
                         /\ outcomes' = Append(outcomes,
                               Outcome(name, IF ef.ok THEN "ok" ELSE "facts_failed", resp))
                /\ idx' = idx + 1
                /\ pc' = pc
    /\ UNCHANGED <<companies, mapping, file, boot_writes, data, runs, file_before,
                   prev_outcomes, normVars, resolveVars>>

\* lines 110-122: one iteration of the loop; whatever get_cik or extract_facts
\* raises is caught and logged, and the loop goes on
BootEntity ==
    /\ pc = "boot_loop"
    /\ idx <= Len(companies)
    /\ LET name == companies[idx]
           r    == get_cik(name, mapping)
       IN  IF r.kind # "return"
           THEN /\ outcomes' = Append(outcomes, Outcome(name, "resolve_failed", NotFetched))
                /\ UNCHANGED all_data
           ELSE \E resp \in FactsResponses :
                   LET ef == extract_facts(resp)
                   IN  /\ all_data' = IF ef.ok THEN DictSet(all_data, name, r.cik, ef.financials)
                                      ELSE all_data
                       /\ outcomes' = Append(outcomes,
                             Outcome(name, IF ef.ok THEN "ok" ELSE "facts_failed", resp))
    /\ idx' = idx + 1
    /\ UNCHANGED <<pc, companies, mapping, file, boot_writes, data, runs, file_before,
                   prev_outcomes, normVars, resolveVars>>

\* lines 123-124: after the loop, the file is written
BootWrite ==
    /\ pc = "boot_loop"
    /\ idx > Len(companies)
    /\ file' = all_data
    /\ boot_writes' = boot_writes + 1
    /\ pc' = "boot_done"
    /\ UNCHANGED <<companies, mapping, idx, all_data, data, runs, outcomes, file_before,
                   prev_outcomes, normVars, resolveVars>>

\* line 57 of the daily update: the file is read
DailyStart ==
    /\ pc \in {"boot_done", "daily_ready", "daily_done"}
    /\ runs < MaxRuns
    /\ data' = file
    /\ file_before' = file
    /\ prev_outcomes' = IF pc = "daily_done" THEN outcomes ELSE <<>>
    /\ outcomes' = <<>>
    /\ idx' = 1
    /\ runs' = runs + 1
    /\ pc' = "daily_loop"
    /\ UNCHANGED <<companies, mapping, all_data, file, boot_writes, normVars, resolveVars>>

\* the record of an entity after lines 63-75, and how the iteration ended
DailyRecord(info, reg, resp) ==
    LET lookup == IF info.cik = <<>> THEN daily_get_cik(info.name, reg)
                  ELSE Returned(info.cik)
        ly     == latest_years(resp)
    IN  IF lookup.kind # "return"
        THEN [info |-> info, outcome |-> Outcome(info.name, "lookup_failed", NotFetched)]
        ELSE IF ~ly.ok
        THEN [info    |-> [info EXCEPT !.cik = lookup.cik],
              outcome |-> Outcome(info.name, "fetch_failed", resp)]
        ELSE [info    |-> [info EXCEPT !.cik = lookup.cik,
                                       !.financials = Merge(info.financials, ly.updated)],
              outcome |-> Outcome(info.name, "ok", resp)]

\* lines 59-80: one iteration of the loop over data.items()
DailyEntity ==
    /\ pc = "daily_loop"
    /\ idx <= Len(data)
    /\ \E reg \in RegistryResponses, resp \in FactsResponses :
          LET rec == DailyRecord(data[idx], reg, resp)
          IN  /\ data' = [data EXCEPT ![idx] = rec.info]
              /\ outcomes' = Append(outcomes, rec.outcome)
    /\ idx' = idx + 1
    /\ UNCHANGED <<pc, companies, mapping, all_data, file, boot_writes, runs, file_before,
                   prev_outcomes, normVars, resolveVars>>

\* lines 82-83: after the loop, the file is written back
DailyWrite ==
    /\ pc = "daily_loop"
    /\ idx > Len(data)
    /\ file' = data
    /\ pc' = "daily_done"
    /\ UNCHANGED <<companies, mapping, idx, all_data, boot_writes, data, runs, outcomes,
                   file_before, prev_outcomes, normVars, resolveVars>>

NextData == BootEntity \/ BootWrite \/ DailyStart \/ DailyEntity \/ DailyWrite

\* an iteration of the running loop ends: the loop's guard holds and idx advances
\* (in NextData only BootEntity and DailyEntity are such steps)
LoopIteration ==
    /\ \/ pc = "boot_loop" /\ idx <= Len(companies)
       \/ pc = "daily_loop" /\ idx <= Len(data)
    /\ idx' = idx + 1

\* a script that was started runs on: an iteration that can be taken is taken,
\* and so is the write after the loop; nothing makes a daily update start
FairData == WF_idx(LoopIteration) /\ WF_vars(BootWrite) /\ WF_vars(DailyWrite)

SpecData == InitData /\ [][NextData]_vars /\ FairData

(***************************************************************************)
(* Claims about normalize_name (SpecNorm).                                 *)
(***************************************************************************)
\* C4: normalize_name is idempotent: normalizing the result of normalize_name
\* gives that result again, for every input string
C4_Idempotent == pc = "norm_twice" => norm2 = norm1

\* C5 as stated: normalize_name("Adobe Systems Incorporated") equals
\* normalize_name("ADOBE INC")
C5_AdobeSystemsEqualsAdobeInc ==
    (pc = "norm_once" /\ name_in = AdobeSystemsIncorporated /\ name_other = AdobeIncUpper)
        => norm1 = norm_other

Adobe == <<"a","d","o","b","e">>

AdobeSystems == <<"a","d","o","b","e"," ","s","y","s","t","e","m","s">>

\* C5 as amended: normalize_name("Adobe Systems Incorporated") equals
\* normalize_name("ADOBE SYSTEMS INC"), both "adobe systems": case and the
\* suffix tokens make no difference, and "systems" is no suffix token, so
\* normalize_name("ADOBE INC") is "adobe"; and every enumerated string
\* normalizes as its upper-case form does
C5_CaseAndSuffixInsensitive ==
    pc = "norm_once" =>
        /\ (name_in = AdobeSystemsIncorporated /\ name_other = AdobeSystemsIncUpper)
               => (norm1 = norm_other /\ norm1 = AdobeSystems)
        /\ name_other = AdobeIncUpper => norm_other = Adobe
        /\ name_other = UpperCase(name_in) => norm1 = norm_other

C5_Witness ==
    /\ pc = "norm_once"
    /\ name_in = AdobeSystemsIncorporated
    /\ name_other = AdobeSystemsIncUpper
    /\ norm1 = AdobeSystems

(***************************************************************************)
(* Claims about get_cik of the bootstrap (SpecResolve).                    *)
(***************************************************************************)
Target == normalize_name(query)

TitleNorm(j) == normalize_name(mapping[j].title)

Sim(j) == token_sort_ratio(Target, TitleNorm(j))

SomeOver == \E j \in DOMAIN mapping : ScoreAtLeast(Sim(j), Threshold)

Contains(j) == IsSubstring(Target, TitleNorm(j))

SomeContains == \E j \in DOMAIN mapping : Contains(j)

\* the first entry, in iteration order, of maximal similarity
ArgMax ==
    CHOOSE j \in DOMAIN mapping :
        /\ \A h \in DOMAIN mapping : ~ScoreLess(Sim(j), Sim(h))
        /\ \A h \in DOMAIN mapping : h < j => ScoreLess(Sim(h), Sim(j))

\* the first entry, in iteration order, whose normalized title contains the target
FirstContaining ==
    CHOOSE j \in DOMAIN mapping : Contains(j) /\ \A h \in DOMAIN mapping : h < j => ~Contains(h)

IsDigits(s) == \A k \in DOMAIN s : s[k] \in Range(Digits10)

\* the call returned the 10-character zero-padded cik_str of entry j
ReturnedCikOf(j) ==
    /\ result.kind = "return"
    /\ Len(result.cik) = 10
    /\ IsDigits(result.cik)
    /\ ParseInt(result.cik) = mapping[j].cik_str

\* C1: when some entry's normalized title has similarity >= 85 to the
\* normalized query, get_cik returns the zero-padded cik_str of the first entry
\* of maximal similarity, whatever the registry's keys are
C1_FuzzyReturnsArgMax ==
    (pc = "resolve_done" /\ SomeOver) => ReturnedCikOf(ArgMax)

\* C2: when no entry reaches 85 and some normalized title contains the
\* normalized query, get_cik returns the zero-padded cik_str of the first
\* entry, in iteration order, whose normalized title contains the query
C2_SubstringFallback ==
    (pc = "resolve_done" /\ ~SomeOver /\ SomeContains) => ReturnedCikOf(FirstContaining)

\* a call that fell back to the second of two entries, the first one not
\* containing a query that is not empty
C2_Witness ==
    /\ pc = "resolve_done"
    /\ ~SomeOver
    /\ Target # <<>>
    /\ Len(mapping) >= 2
    /\ ~Contains(1)
    /\ Contains(2)
    /\ ReturnedCikOf(2)

\* C3: when no entry reaches 85 and no normalized title contains the
\* normalized query (the empty registry included), get_cik fails with the
\* ValueError "CIK not found", whose score is the maximum similarity over the
\* registry
C3_NotFoundWithBestScore ==
    (pc = "resolve_done" /\ ~SomeOver /\ ~SomeContains) =>
        /\ result.kind = "ValueError"
        /\ \A j \in DOMAIN mapping : ~ScoreLess(result.score, Sim(j))
        /\ mapping # <<>> => \E j \in DOMAIN mapping : ScoreEq(result.score, Sim(j))

\* C10: when the normalized query is empty and the registry is not, get_cik
\* returns the identifier of some entry, the first one when no entry reaches 85
C10_EmptyQueryReturnsAnEntry ==
    (pc = "resolve_done" /\ Target = <<>> /\ mapping # <<>>) =>
        /\ \E j \in DOMAIN mapping : ReturnedCikOf(j)
        /\ ~SomeOver => ReturnedCikOf(1)

(***************************************************************************)
(* Claims about the two main loops (SpecData).                             *)
(***************************************************************************)
\* the bootstrap's file holds an entry for a name exactly when some entity of
\* that name got through get_cik and extract_facts; every entity was visited,
\* in order
BootFileRight ==
    /\ Len(outcomes) = Len(companies)
    /\ \A k \in DOMAIN companies : outcomes[k].name = companies[k]
    /\ \A name \in BootNames :
          HasName(file, name) <=>
              \E k \in DOMAIN outcomes : outcomes[k].name = name /\ outcomes[k].status = "ok"
    /\ \A k \in DOMAIN file : \A h \in DOMAIN file : file[k].name = file[h].name => k = h

\* C6: the bootstrap always completes the batch: whatever fails for an entity,
\* the loop goes on to the end of the list, the file is then written, once,
\* and it holds exactly the entities that got through
C6_BatchCompletes ==
    /\ (pc = "boot_loop") ~> (pc = "boot_done")
    /\ [](boot_writes <= 1)
    /\ []((pc = "boot_loop") => boot_writes = 0)
    /\ []((pc = "boot_done") => (boot_writes = 1 /\ BootFileRight))

\* a finished bootstrap of two entities, one skipped and one kept
C6_Witness ==
    /\ pc = "boot_done"
    /\ Len(companies) = 2
    /\ \E k \in DOMAIN outcomes : outcomes[k].status = "resolve_failed"
    /\ \E k \in DOMAIN outcomes : outcomes[k].status = "ok"
    /\ Len(file) = 1

\* C7: an entity whose processing failed in a daily-update run has, in the
\* file the run wrote, the record it had in the file the run read
C7_FailedEntityUnmodified ==
    pc = "daily_done" =>
        \A k \in DOMAIN outcomes :
            outcomes[k].status # "ok" => file[k] = file_before[k]

\* the upstream facts fetched for an entity hold year y for a metric
UpstreamHas(resp, metric, y) ==
    /\ resp.kind = "facts"
    /\ \E k \in DOMAIN ItemsOf(resp.facts, Concept(metric)) :
          YearOf(ItemsOf(resp.facts, Concept(metric))[k]) = y

IsPrefix(a, b) == Len(a) <= Len(b) /\ SubSeq(b, 1, Len(a)) = a

\* the observations a run appended to a metric's list
Appended(k, metric) ==
    LET old == ObsOf(file_before[k].financials, metric)
        new == ObsOf(file[k].financials, metric)
    IN  SubSeq(new, Len(old) + 1, Len(new))

ModelYears == (Cutoff - 2)..(CurrentYear + 1)

AllMetricKeys(k) ==
    Range(Metrics) \cup DOMAIN file[k].financials \cup DOMAIN file_before[k].financials

\* C8: a daily-update run keeps every list of the file it read as a prefix of
\* the list it writes, and appends one observation of year y when the fetched
\* facts hold year y for the metric and the list read held no year y, and none
\* otherwise; a run that fetches for an entity what the run before fetched
\* leaves the entity's lists as they were
C8_MergeByYear ==
    pc = "daily_done" =>
        /\ Len(file) = Len(file_before)
        /\ \A k \in DOMAIN file : \A m \in AllMetricKeys(k) :
              /\ IsPrefix(ObsOf(file_before[k].financials, m), ObsOf(file[k].financials, m))
              /\ \A y \in ModelYears \cup YearsOf(Appended(k, m)) :
                    Cardinality({j \in DOMAIN Appended(k, m) : Appended(k, m)[j].year = y})
                        = IF /\ UpstreamHas(outcomes[k].resp, m, y)
                             /\ y \notin YearsOf(ObsOf(file_before[k].financials, m))
                          THEN 1 ELSE 0
        /\ \A k \in DOMAIN prev_outcomes :
              outcomes[k].resp = prev_outcomes[k].resp
                  => file[k].financials = file_before[k].financials

\* a second run that appended to one entity, skipping a year its list held,
\* and fetched for another entity the facts the first run had fetched
C8_Witness ==
    /\ pc = "daily_done"
    /\ \E k \in DOMAIN file : \E m \in Range(Metrics) : \E y \in ModelYears :
          /\ Appended(k, m) # <<>>
          /\ UpstreamHas(outcomes[k].resp, m, y)
          /\ y \in YearsOf(ObsOf(file_before[k].financials, m))
    /\ \E k \in DOMAIN prev_outcomes :
          /\ outcomes[k].resp = prev_outcomes[k].resp
          /\ outcomes[k].resp.kind = "facts"

\* C9: once the bootstrap has written the file, every observation in it is of
\* the trailing window, however many daily updates have run
C9_WindowKept ==
    boot_writes = 1 =>
        \A k \in DOMAIN file : \A m \in DOMAIN file[k].financials :
            \A j \in DOMAIN file[k].financials[m] :
                file[k].financials[m][j].year >= CurrentYear - 5

=============================================================================
